---- MODULE Spec2Model ----
(***************************************************************************)
(* multi_dup_filter_sink (include/spdlog/sinks/multi_dup_filter_sink.h):   *)
(* a sink that keeps the last 2 * max_skip_line_ messages, detects a       *)
(* repeating cycle of up to max_skip_line_ messages, absorbs the messages  *)
(* that continue the cycle and reports them with one "Skipped ..." message *)
(* when the cycle breaks.                                                  *)
(*                                                                         *)
(* Indices: the deques of the source are 0-based, sequences here are       *)
(* 1-based, so recent_msgs_[i] of the source is recent_msgs_[i + 1] here.  *)
(* A time_point is the number of the log call that produced the message    *)
(* (1, 2, ...); a default-constructed time_point is the epoch, 0.          *)
(***************************************************************************)
EXTENDS Integers, Sequences, FiniteSets, TLC

VARIABLES
    max_skip_line_,        \* size_t max_skip_line_
    log_level_,            \* level::level_enum log_level_
    skip_start_time_,      \* log_clock::time_point skip_start_time_
    skip_end_time_,        \* log_clock::time_point skip_end_time_
    recent_msgs_,          \* std::deque<std::string> recent_msgs_
    recent_msgs_details_,  \* std::deque<details::log_msg> recent_msgs_details_
    skip_line_count_,      \* size_t skip_line_count_
    current_skip_,         \* size_t current_skip_
    input,                 \* history: the messages sink_it_ was called with
    calls,                 \* history: the calls of dist_sink::sink_it_
    ret,                   \* how the last call returned to its caller
    pending,               \* the log calls the example program has left
    mutex_,                \* Mutex mutex_ of the base sink: 0 or its owner
    threads                \* the producer threads inside a log call

vars == <<max_skip_line_, log_level_, skip_start_time_, skip_end_time_,
          recent_msgs_, recent_msgs_details_, skip_line_count_,
          current_skip_, input, calls, ret, pending, mutex_, threads>>

(***************************************************************************)
(* Bounds of the exploration.                                              *)
(***************************************************************************)
MaxPeriod == 3        \* max_skip_line_ ranges over 1..MaxPeriod
MaxInput == 8         \* messages logged in one behaviour
MaxDetectPeriod == 4  \* max_skip_line_ of the windows given to the detector
MaxFailInput == 4     \* messages logged when the sub sinks may throw
MaxThrows == 1        \* calls of the sub sinks that throw in one behaviour
MaxDeepPeriod == 4    \* max_skip_line_ ranges over 1..MaxDeepPeriod in SpecDeep
MaxDeepInput == 10    \* messages logged in one behaviour of SpecDeep
MaxCycleInput == 12   \* messages logged in one behaviour of SpecCycle
MaxMtPeriod == 2      \* max_skip_line_ ranges over 1..MaxMtPeriod in SpecMt
MaxMtInput == 5       \* messages logged in one behaviour of SpecMt

(***************************************************************************)
(* Values.                                                                 *)
(***************************************************************************)
Epoch == 0

Levels == {"info", "warn"}

\* what a producer can log: a text from a logger at a source location
Inputs ==
    { [payload |-> "a", logger_name |-> "l1", source |-> "f.cpp:1", level |-> "debug"],
      [payload |-> "b", logger_name |-> "l1", source |-> "f.cpp:2", level |-> "debug"],
      [payload |-> "c", logger_name |-> "l2", source |-> "g.cpp:1", level |-> "err"] }

Texts == {"a", "b", "c"}

\* exceptions a sub sink can throw out of log()
Failures == {"spdlog_ex", "bad_alloc"}

\* details::log_msg built by the logger for its t-th log call
log_msg(t, in) ==
    [time |-> t, source |-> in.source, logger_name |-> in.logger_name,
     level |-> in.level, payload |-> in.payload]

(***************************************************************************)
(* sink_it_, lines 83-88: append to both deques, drop the oldest entry     *)
(* when the size exceeds 2 * max_skip_line_.                               *)
(***************************************************************************)
\* the bug of dropping the oldest entry one message early (>= for >)
push_pop_early(q, x, max_skip_line) ==
    LET pushed == Append(q, x)
    IN  IF Len(pushed) >= max_skip_line * 2 THEN Tail(pushed) ELSE pushed

push_pop(q, x, max_skip_line) ==
    LET pushed == Append(q, x)
    IN  IF Len(pushed) > max_skip_line * 2 THEN Tail(pushed) ELSE pushed

(***************************************************************************)
(* sink_it_, line 94: the newest text equals the text current_skip back.   *)
(***************************************************************************)
\* the bug of an index one off: size - current_skip_ for the source's
\* size - current_skip_ - 1
continue_skipping_off_by_one(msgs, skip) ==
    msgs[Len(msgs)] = msgs[Len(msgs) - skip + 1]

\* the bug of comparing the newest text with itself
continue_skipping_self(msgs, skip) ==
    msgs[Len(msgs)] = msgs[Len(msgs)]

continue_skipping(msgs, skip) ==
    msgs[Len(msgs)] = msgs[Len(msgs) - skip]

(***************************************************************************)
(* find_new_multi_dup, lines 129-146.  check_loop is the inner for loop    *)
(* and yields the value of check_start_index when the loop is left;        *)
(* find_loop is the outer for loop and yields the new current_skip_.       *)
(***************************************************************************)
\* the bug of comparing the newest pair only
check_loop_newest_only(msgs, check_start_index, check_stop_index, finding_skip) ==
    IF msgs[check_start_index + 1] # msgs[check_start_index - finding_skip + 1]
    THEN check_start_index
    ELSE check_stop_index

RECURSIVE check_loop(_, _, _, _)
check_loop(msgs, check_start_index, check_stop_index, finding_skip) ==
    IF check_start_index > check_stop_index
    THEN IF msgs[check_start_index + 1] # msgs[check_start_index - finding_skip + 1]
         THEN check_start_index
         ELSE check_loop(msgs, check_start_index - 1, check_stop_index, finding_skip)
    ELSE check_start_index

RECURSIVE find_loop(_, _, _)
find_loop(msgs, finding_skip, skip) ==
    IF finding_skip > 0
    THEN IF finding_skip * 2 > Len(msgs)
         THEN find_loop(msgs, finding_skip - 1, skip)
         ELSE LET check_start_index == Len(msgs) - 1
                  check_stop_index == check_start_index - finding_skip
              IN  IF check_loop(msgs, check_start_index, check_stop_index,
                                finding_skip) = check_stop_index
                  THEN finding_skip
                  ELSE find_loop(msgs, finding_skip - 1, skip)
    ELSE skip

\* the bug of searching from 1 upwards: the shortest period wins
RECURSIVE find_loop_upwards(_, _, _, _)
find_loop_upwards(msgs, finding_skip, max_skip_line, skip) ==
    IF finding_skip <= max_skip_line
    THEN IF finding_skip * 2 > Len(msgs)
         THEN find_loop_upwards(msgs, finding_skip + 1, max_skip_line, skip)
         ELSE LET check_start_index == Len(msgs) - 1
                  check_stop_index == check_start_index - finding_skip
              IN  IF check_loop(msgs, check_start_index, check_stop_index,
                                finding_skip) = check_stop_index
                  THEN finding_skip
                  ELSE find_loop_upwards(msgs, finding_skip + 1, max_skip_line, skip)
    ELSE skip

find_new_multi_dup_shortest(msgs, max_skip_line, skip) ==
    find_loop_upwards(msgs, 1, max_skip_line, skip)

\* the bug of the guard finding_skip > size for finding_skip * 2 > size,
\* with a check loop that stops at the front of the deque
RECURSIVE find_loop_short_window(_, _, _)
find_loop_short_window(msgs, finding_skip, skip) ==
    IF finding_skip > 0
    THEN IF finding_skip >= Len(msgs)
         THEN find_loop_short_window(msgs, finding_skip - 1, skip)
         ELSE IF \A i \in (finding_skip + 1)..Len(msgs) :
                    i > Len(msgs) - finding_skip => msgs[i] = msgs[i - finding_skip]
              THEN finding_skip
              ELSE find_loop_short_window(msgs, finding_skip - 1, skip)
    ELSE skip

find_new_multi_dup_short_window(msgs, max_skip_line, skip) ==
    find_loop_short_window(msgs, max_skip_line, skip)

find_new_multi_dup(msgs, max_skip_line, skip) ==
    find_loop(msgs, max_skip_line, skip)

(***************************************************************************)
(* sink_duplicate_message_, lines 121-128: the message built from the      *)
(* entry before the newest one.  fmt::format is the concatenation below.   *)
(***************************************************************************)
format(count, skip, start, end) ==
    "Skipped " \o ToString(count) \o " duplicate messages with step "
        \o ToString(skip) \o " from " \o ToString(start) \o " to "
        \o ToString(end) \o "."

\* the bug of building the message from the newest entry (size - 1)
sink_duplicate_message_newest(details, count, skip, start, end, level) ==
    LET last_dup_msg == details[Len(details)]
    IN  [time |-> last_dup_msg.time, source |-> last_dup_msg.source,
         logger_name |-> last_dup_msg.logger_name, level |-> level,
         payload |-> format(count, skip, start, end)]

sink_duplicate_message_(details, count, skip, start, end, level) ==
    LET last_dup_msg == details[Len(details) - 1]
    IN  [time |-> last_dup_msg.time, source |-> last_dup_msg.source,
         logger_name |-> last_dup_msg.logger_name, level |-> level,
         payload |-> format(count, skip, start, end)]

(***************************************************************************)
(* sink_it_, lines 90, 110, 115: print_current_msg.                        *)
(***************************************************************************)
\* the bug of leaving out line 110: the message that ends a run is dropped
print_current_msg_idle_only(skip, continues) ==
    skip = 0

\* the bug of initialising print_current_msg with true at line 90
print_current_msg_always(skip, continues) ==
    TRUE

print_current_msg(skip, continues) ==
    IF skip # 0 THEN ~continues ELSE TRUE

(***************************************************************************)
(* sink_it_, lines 96-100 and 109: skip_line_count_.                       *)
(***************************************************************************)
\* the bug of incrementing inside the if of line 96 only
next_skip_line_count_once(count, continues) ==
    IF continues THEN 1 ELSE 0

\* the bug of leaving out line 109: the count is never reset
next_skip_line_count_kept(count, continues) ==
    IF continues THEN count + 1 ELSE count

next_skip_line_count(count, continues) ==
    IF continues THEN count + 1 ELSE 0

(***************************************************************************)
(* sink_it_, lines 92, 108 and 114: current_skip_.  While skipping the     *)
(* detector is not called: a match keeps the period, a mismatch clears it. *)
(***************************************************************************)
\* the bug of looking for a new period in the call that ends a run
next_current_skip_redetect(skip, continues, msgs, max_skip_line) ==
    IF skip # 0 /\ continues
    THEN skip
    ELSE find_new_multi_dup(msgs, max_skip_line, 0)

next_current_skip(skip, continues, msgs, max_skip_line) ==
    IF skip # 0
    THEN IF continues THEN skip ELSE 0
    ELSE find_new_multi_dup(msgs, max_skip_line, skip)

(***************************************************************************)
(* sink_it_, lines 105-107 and 117-119: the calls of dist_sink::sink_it_   *)
(* in the order they are made.                                             *)
(***************************************************************************)
\* the bug of reporting after the arriving message has been passed on
forward_calls_report_last(reports, skipped_msg, prints, current_msg) ==
    (IF prints THEN <<current_msg>> ELSE <<>>)
    \o (IF reports THEN <<skipped_msg>> ELSE <<>>)

forward_calls(reports, skipped_msg, prints, current_msg) ==
    (IF reports THEN <<skipped_msg>> ELSE <<>>)
    \o (IF prints THEN <<current_msg>> ELSE <<>>)

(***************************************************************************)
(* An exception thrown by a sub sink leaves dist_sink::sink_it_, then      *)
(* sink_duplicate_message_ (line 127) or sink_it_ (line 118): neither has  *)
(* a handler.  thrown is "ok" when no call threw.                          *)
(***************************************************************************)
\* the bug of a catch (...) {} around the calls of the sub sinks
returned_swallowed(thrown) == "ok"

returned(thrown) == thrown

(***************************************************************************)
(* sink_it_, lines 82-120.  fail = 0: no sub sink throws; fail = i: the    *)
(* i-th call of dist_sink::sink_it_ made by this call throws e.            *)
(***************************************************************************)
sink_it_(msg, fail, e) ==
    LET msgs == push_pop(recent_msgs_, msg.payload, max_skip_line_)
        details == push_pop(recent_msgs_details_, msg, max_skip_line_)
        skipping == current_skip_ # 0
        continues == skipping /\ continue_skipping(msgs, current_skip_)
        end_skipping == skipping /\ ~continues
        end_time == details[Len(details) - 1].time
        reports == end_skipping /\ skip_line_count_ > 0
        step == Len(input) + 1
        skipped_msg ==
            [msg |-> sink_duplicate_message_(details, skip_line_count_,
                        current_skip_, skip_start_time_, end_time, log_level_),
             kind |-> "summary", step |-> step,
             count |-> skip_line_count_, period |-> current_skip_,
             start |-> skip_start_time_, end |-> end_time]
        current_msg ==
            [msg |-> msg, kind |-> "plain", step |-> step,
             count |-> 0, period |-> 0, start |-> Epoch, end |-> Epoch]
        forwards ==
            forward_calls(reports, skipped_msg,
                          print_current_msg(current_skip_, continues),
                          current_msg)
        made == IF fail = 0 THEN forwards ELSE SubSeq(forwards, 1, fail)
        \* the report threw: lines 108-119 are not executed
        unwound == reports /\ fail = 1
    IN  /\ fail <= Len(forwards)
        /\ recent_msgs_' = msgs
        /\ recent_msgs_details_' = details
        /\ skip_start_time_' =
              IF continues /\ skip_line_count_ = 0
              THEN msg.time ELSE skip_start_time_
        /\ skip_end_time_' = IF end_skipping THEN end_time ELSE skip_end_time_
        /\ skip_line_count_' =
              IF skipping /\ ~unwound
              THEN next_skip_line_count(skip_line_count_, continues)
              ELSE skip_line_count_
        /\ current_skip_' =
              IF unwound
              THEN current_skip_
              ELSE next_current_skip(current_skip_, continues, msgs,
                                     max_skip_line_)
        /\ calls' = calls \o
              [i \in 1..Len(made) |->
                  made[i] @@ [outcome |-> IF i = fail THEN e ELSE "ok"]]
        /\ ret' = returned(IF fail = 0 THEN "ok" ELSE e)
        /\ input' = Append(input, msg)
        /\ UNCHANGED <<max_skip_line_, log_level_, mutex_, threads>>

(***************************************************************************)
(* The constructor, lines 69-70 and 78-79.                                 *)
(***************************************************************************)
Constructed(max_skip_line, notification_level) ==
    /\ max_skip_line_ = max_skip_line
    /\ log_level_ = notification_level
    /\ skip_start_time_ = Epoch
    /\ skip_end_time_ = Epoch
    /\ recent_msgs_ = <<>>
    /\ recent_msgs_details_ = <<>>
    /\ skip_line_count_ = 0
    /\ current_skip_ = 0
    /\ input = <<>>
    /\ calls = <<>>
    /\ ret = "none"
    /\ mutex_ = 0

(***************************************************************************)
(* Spec: any message sequence of up to MaxInput messages is logged; the    *)
(* sub sinks do not throw.                                                 *)
(***************************************************************************)
Init ==
    /\ \E m \in 1..MaxPeriod, l \in Levels : Constructed(m, l)
    /\ pending = <<>>
    /\ threads = <<>>

Log ==
    /\ Len(input) < MaxInput
    /\ \E in \in Inputs : sink_it_(log_msg(Len(input) + 1, in), 0, "ok")
    /\ UNCHANGED pending

Next == Log

Spec == Init /\ [][Next]_vars

(***************************************************************************)
(* SpecDeep: as Spec, with two texts only, longer inputs and longer        *)
(* periods, so that a run with a short period can end inside a longer      *)
(* cycle.                                                                  *)
(***************************************************************************)
DeepInputs == {in \in Inputs : in.logger_name = "l1"}

InitDeep ==
    /\ \E m \in 1..MaxDeepPeriod : Constructed(m, "info")
    /\ pending = <<>>
    /\ threads = <<>>

LogDeep ==
    /\ Len(input) < MaxDeepInput
    /\ \E in \in DeepInputs : sink_it_(log_msg(Len(input) + 1, in), 0, "ok")
    /\ UNCHANGED pending

NextDeep == LogDeep

SpecDeep == InitDeep /\ [][NextDeep]_vars

(***************************************************************************)
(* SpecCycle: a producer that logs a cycle of 1..max_skip_line_ messages   *)
(* over and over; pending holds the cycle, rotated by each call.  The      *)
(* producer never stops of its own (weak fairness of its log call); the    *)
(* exploration follows it for MaxCycleInput messages.                      *)
(***************************************************************************)
InitCycle ==
    \E m \in 1..MaxPeriod : \E c \in 1..m : \E cycle \in [1..c -> Inputs] :
        /\ Constructed(m, "info")
        /\ pending = cycle
        /\ threads = <<>>

LogCycle ==
    /\ Len(input) < MaxCycleInput
    /\ sink_it_(log_msg(Len(input) + 1, Head(pending)), 0, "ok")
    /\ pending' = Append(Tail(pending), Head(pending))

NextCycle == LogCycle

SpecCycle == InitCycle /\ [][NextCycle]_vars /\ WF_vars(LogCycle)

(***************************************************************************)
(* SpecExample: the program of the header comment, lines 26-44: a sink     *)
(* with max_skip_line 10 (or the default 8) logs some cycles of Hello1,    *)
(* Hello2, Hello3 and then Different Hello, once or twice over.            *)
(***************************************************************************)
ExampleMaxSkipLine == 10

DefaultMaxSkipLine == 8

ExampleCycles == 10

ExamplePasses == 2

hello(text) ==
    [payload |-> text, logger_name |-> "logger", source |-> "", level |-> "info"]

RECURSIVE repeat(_, _)
repeat(s, n) == IF n = 0 THEN <<>> ELSE s \o repeat(s, n - 1)

example_program(cycles, passes) ==
    repeat(repeat(<<hello("Hello1"), hello("Hello2"), hello("Hello3")>>, cycles)
               \o <<hello("Different Hello")>>,
           passes)

InitExample ==
    /\ \E m \in {ExampleMaxSkipLine, DefaultMaxSkipLine} : Constructed(m, "info")
    /\ \E cycles \in 1..ExampleCycles, passes \in 1..ExamplePasses :
          pending = example_program(cycles, passes)
    /\ threads = <<>>

LogExample ==
    /\ pending # <<>>
    /\ sink_it_(log_msg(Len(input) + 1, Head(pending)), 0, "ok")
    /\ pending' = Tail(pending)

NextExample == LogExample

SpecExample == InitExample /\ [][NextExample]_vars

(***************************************************************************)
(* SpecDetect: find_new_multi_dup applied to any window of up to           *)
(* 2 * max_skip_line_ texts, as sink_it_ calls it (current_skip_ = 0).     *)
(***************************************************************************)
text_msg(text) ==
    [payload |-> text, logger_name |-> "l1", source |-> "f.cpp:1", level |-> "debug"]

InitDetect ==
    /\ \E m \in 1..MaxDetectPeriod : \E n \in 0..(2 * m) :
          \E w \in [1..n -> Texts] :
              /\ max_skip_line_ = m
              /\ recent_msgs_ = w
              /\ recent_msgs_details_ = [i \in 1..n |-> log_msg(i, text_msg(w[i]))]
    /\ input = recent_msgs_details_
    /\ log_level_ = "info"
    /\ skip_start_time_ = Epoch
    /\ skip_end_time_ = Epoch
    /\ skip_line_count_ = 0
    /\ current_skip_ = 0
    /\ calls = <<>>
    /\ ret = "none"
    /\ pending = <<>>
    /\ mutex_ = 0
    /\ threads = <<>>

Detect ==
    /\ ret = "none"
    /\ current_skip_' =
          find_new_multi_dup(recent_msgs_, max_skip_line_, current_skip_)
    /\ ret' = "ok"
    /\ UNCHANGED <<max_skip_line_, log_level_, skip_start_time_,
                   skip_end_time_, recent_msgs_, recent_msgs_details_,
                   skip_line_count_, input, calls, pending, mutex_, threads>>

NextDetect == Detect

SpecDetect == InitDetect /\ [][NextDetect]_vars

(***************************************************************************)
(* SpecFail: as Spec, but a sub sink may throw out of a call of            *)
(* dist_sink::sink_it_.                                                    *)
(***************************************************************************)
throws == Len(SelectSeq(calls, LAMBDA c : c.outcome # "ok"))

LogDelivered ==
    /\ Len(input) < MaxFailInput
    /\ \E in \in Inputs : sink_it_(log_msg(Len(input) + 1, in), 0, "ok")
    /\ UNCHANGED pending

LogThrows ==
    /\ Len(input) < MaxFailInput
    /\ throws < MaxThrows
    /\ \E in \in Inputs, fail \in 1..2, e \in Failures :
          sink_it_(log_msg(Len(input) + 1, in), fail, e)
    /\ UNCHANGED pending

NextFail == LogDelivered \/ LogThrows

SpecFail == Init /\ [][NextFail]_vars

(***************************************************************************)
(* SpecMt: one multi_dup_filter_sink_mt (line 149) shared by the producer  *)
(* threads.  A thread's log call builds the log_msg, which takes its time, *)
(* and enters base_sink<Mutex>::log: a std::lock_guard<Mutex> on mutex_    *)
(* around sink_it_(msg).  sink_it_ is taken in the steps between which a   *)
(* thread can be preempted: lines 83-88 (push_back), lines 90-116 (decide, *)
(* the report of line 106 included) and lines 117-119 (forward).  input is *)
(* the order in which the records entered sink_it_.                        *)
(***************************************************************************)
Producers == {1, 2}

idle == [pc |-> "idle"]

at(t, pc) == threads[t].pc = pc

\* log calls made so far: the time of the next log_msg is one more
started ==
    Len(input) + Cardinality({t \in Producers : at(t, "lock") \/ at(t, "push_back")})

\* the bug of sharing the sink built on details::null_mutex (line 150),
\* whose lock() returns at once
can_lock_null(owner) == TRUE

can_lock(owner) == owner = 0

InitMt ==
    /\ \E m \in 1..MaxMtPeriod : Constructed(m, "info")
    /\ pending = <<>>
    /\ threads = [t \in Producers |-> idle]

log_call(t) ==
    /\ at(t, "idle")
    /\ started < MaxMtInput
    /\ \E in \in DeepInputs :
          threads' = [threads EXCEPT
                         ![t] = [pc |-> "lock", msg |-> log_msg(started + 1, in)]]
    /\ UNCHANGED <<max_skip_line_, log_level_, skip_start_time_, skip_end_time_,
                   recent_msgs_, recent_msgs_details_, skip_line_count_,
                   current_skip_, input, calls, ret, pending, mutex_>>

lock(t) ==
    /\ at(t, "lock")
    /\ can_lock(mutex_)
    /\ mutex_' = t
    /\ threads' = [threads EXCEPT ![t].pc = "push_back"]
    /\ UNCHANGED <<max_skip_line_, log_level_, skip_start_time_, skip_end_time_,
                   recent_msgs_, recent_msgs_details_, skip_line_count_,
                   current_skip_, input, calls, ret, pending>>

push_back(t) ==
    /\ at(t, "push_back")
    /\ recent_msgs_' = push_pop(recent_msgs_, threads[t].msg.payload, max_skip_line_)
    /\ recent_msgs_details_' =
          push_pop(recent_msgs_details_, threads[t].msg, max_skip_line_)
    /\ input' = Append(input, threads[t].msg)
    /\ threads' = [threads EXCEPT
                      ![t] = [pc |-> "decide", msg |-> threads[t].msg,
                              step |-> Len(input) + 1]]
    /\ UNCHANGED <<max_skip_line_, log_level_, skip_start_time_, skip_end_time_,
                   skip_line_count_, current_skip_, calls, ret, pending, mutex_>>

decide(t) ==
    LET msg == threads[t].msg
        skipping == current_skip_ # 0
        continues == skipping /\ continue_skipping(recent_msgs_, current_skip_)
        end_skipping == skipping /\ ~continues
        end_time == recent_msgs_details_[Len(recent_msgs_details_) - 1].time
        reports == end_skipping /\ skip_line_count_ > 0
        skipped_msg ==
            [msg |-> sink_duplicate_message_(recent_msgs_details_,
                        skip_line_count_, current_skip_, skip_start_time_,
                        end_time, log_level_),
             kind |-> "summary", step |-> threads[t].step,
             count |-> skip_line_count_, period |-> current_skip_,
             start |-> skip_start_time_, end |-> end_time, outcome |-> "ok"]
    IN  /\ at(t, "decide")
        /\ skip_start_time_' =
              IF continues /\ skip_line_count_ = 0
              THEN msg.time ELSE skip_start_time_
        /\ skip_end_time_' = IF end_skipping THEN end_time ELSE skip_end_time_
        /\ skip_line_count_' =
              IF skipping
              THEN next_skip_line_count(skip_line_count_, continues)
              ELSE skip_line_count_
        /\ current_skip_' =
              next_current_skip(current_skip_, continues, recent_msgs_,
                                max_skip_line_)
        /\ calls' = calls \o (IF reports THEN <<skipped_msg>> ELSE <<>>)
        /\ threads' = [threads EXCEPT
                          ![t] = [pc |-> "forward", msg |-> msg,
                                  step |-> threads[t].step,
                                  print_current_msg |->
                                      print_current_msg(current_skip_, continues)]]
        /\ UNCHANGED <<max_skip_line_, log_level_, recent_msgs_,
                       recent_msgs_details_, input, ret, pending, mutex_>>

forward(t) ==
    LET current_msg ==
            [msg |-> threads[t].msg, kind |-> "plain", step |-> threads[t].step,
             count |-> 0, period |-> 0, start |-> Epoch, end |-> Epoch,
             outcome |-> "ok"]
    IN  /\ at(t, "forward")
        /\ calls' = calls \o
              (IF threads[t].print_current_msg THEN <<current_msg>> ELSE <<>>)
        /\ threads' = [threads EXCEPT ![t] = [pc |-> "unlock"]]
        /\ UNCHANGED <<max_skip_line_, log_level_, skip_start_time_,
                       skip_end_time_, recent_msgs_, recent_msgs_details_,
                       skip_line_count_, current_skip_, input, ret, pending,
                       mutex_>>

unlock(t) ==
    /\ at(t, "unlock")
    /\ mutex_' = 0
    /\ ret' = returned("ok")
    /\ threads' = [threads EXCEPT ![t] = idle]
    /\ UNCHANGED <<max_skip_line_, log_level_, skip_start_time_, skip_end_time_,
                   recent_msgs_, recent_msgs_details_, skip_line_count_,
                   current_skip_, input, calls, pending>>

NextMt ==
    \E t \in Producers :
        \/ log_call(t)
        \/ lock(t)
        \/ push_back(t)
        \/ decide(t)
        \/ forward(t)
        \/ unlock(t)

SpecMt == InitMt /\ [][NextMt]_vars

(***************************************************************************)
(* What the sub sinks received.                                            *)
(***************************************************************************)
out == SelectSeq(calls, LAMBDA c : c.outcome = "ok")

plain(c) == c.kind = "plain"

summary(c) == c.kind = "summary"

plain_out == SelectSeq(out, plain)

summary_out == SelectSeq(out, summary)

RECURSIVE sum_counts(_)
sum_counts(s) == IF s = <<>> THEN 0 ELSE Head(s).count + sum_counts(Tail(s))

\* the messages the sub sinks received during the last call of sink_it_
last_out == SelectSeq(out, LAMBDA c : c.step = Len(input))

\* the input message number i was given to the sub sinks
forwarded(i) == \E j \in 1..Len(out) : plain(out[j]) /\ out[j].step = i

\* the first message of the block of absorbed messages that ends at k - 1
run_start(k) ==
    CHOOSE r \in 1..k :
        /\ \A i \in r..(k - 1) : ~forwarded(i)
        /\ r > 1 => forwarded(r - 1)

\* some block of p <= m texts of s is directly followed by the same block
has_repeat(s, m) ==
    \E p \in 1..m : \E i \in 1..(Len(s) - 2 * p + 1) :
        \A j \in 0..(p - 1) : s[i + j].payload = s[i + p + j].payload

(***************************************************************************)
(* Properties of Spec.                                                     *)
(***************************************************************************)

\* C1: when no block of p <= max_skip_line_ texts of the input is directly
\* followed by the same block, the sub sinks received every input message
\* once, in arrival order, and nothing else (no "Skipped ..." message).
C1_PassThrough ==
    ~has_repeat(input, max_skip_line_) =>
        /\ Len(out) = Len(input)
        /\ \A i \in 1..Len(input) :
              plain(out[i]) /\ out[i].step = i /\ out[i].msg = input[i]

\* a repetition-free input longer than the window, with a period of 2 or
\* more to look for
C1_Witness ==
    /\ ~has_repeat(input, max_skip_line_)
    /\ max_skip_line_ >= 2
    /\ Len(input) > 2 * max_skip_line_
    /\ Len(out) = Len(input)

\* C3 as stated: after any finite input, the number of messages passed on
\* plus the counts of all "Skipped ..." messages is the number of inputs.
C3_Original ==
    Len(plain_out) + sum_counts(summary_out) = Len(input)

\* C3 as amended: the messages absorbed by a run that no later message has
\* ended are reported by no "Skipped ..." message; the sum is the number
\* of inputs less the skip_line_count_ of that run.
C3_Conservation ==
    Len(plain_out) + sum_counts(summary_out) = Len(input) - skip_line_count_

\* an input with a reported run that ends inside a later run
C3_Witness ==
    /\ Len(summary_out) >= 1
    /\ skip_line_count_ >= 2

\* C4: a "Skipped ..." message is passed on exactly in the call whose
\* message arrives while skipping, differs from the text current_skip_
\* positions back and finds skip_line_count_ > 0; then exactly that one
\* message and after it the arriving message are passed on.  With
\* skip_line_count_ = 0 the arriving message alone is passed on.  No call
\* passes on more than one "Skipped ..." and one plain message.
C4_Step ==
    LET k == Len(input')
        msg == input'[k]
        new == SubSeq(out', Len(out) + 1, Len(out'))
        breaks == /\ current_skip_ # 0
                  /\ msg.payload # input'[k - current_skip_].payload
    IN  k = Len(input) + 1 =>
          /\ Len(SelectSeq(new, summary)) <= 1
          /\ Len(SelectSeq(new, plain)) <= 1
          /\ (\E i \in 1..Len(new) : summary(new[i]))
                <=> (breaks /\ skip_line_count_ > 0)
          /\ (breaks /\ skip_line_count_ > 0) =>
                /\ Len(new) = 2
                /\ summary(new[1])
                /\ plain(new[2]) /\ new[2].msg = msg
          /\ (breaks /\ skip_line_count_ = 0) =>
                /\ Len(new) = 1
                /\ plain(new[1]) /\ new[1].msg = msg

C4_SummaryPlacement == [][C4_Step]_vars

\* the last call ended a run with a report, and an earlier call ended a
\* run that had absorbed nothing
C4_Witness ==
    /\ Len(last_out) = 2
    /\ summary(last_out[1])
    /\ \E k \in 2..Len(input) :
          /\ forwarded(k - 1) /\ forwarded(k)
          /\ \E p \in 1..max_skip_line_ :
                /\ k - 1 >= 2 * p
                /\ \A j \in 0..(p - 1) :
                      input[k - 1 - j].payload = input[k - 1 - j - p].payload
                /\ input[k].payload # input[k - p].payload

\* C5: the "Skipped ..." message passed on by a call reports the number of
\* messages absorbed since the last message passed on, the current_skip_
\* of the run, the time of the first and of the last absorbed message; its
\* time, source and logger are those of the last absorbed message, which
\* is the one before the arriving message, and its level is log_level_.
C5_Step ==
    LET k == Len(input')
        new == SubSeq(out', Len(out) + 1, Len(out'))
        r == run_start(k)
        last == input[k - 1]
    IN  \A i \in 1..Len(new) : summary(new[i]) =>
          /\ r < k
          /\ ~forwarded(k - 1)
          /\ new[i].count = k - r
          /\ new[i].period = current_skip_
          /\ new[i].start = input[r].time
          /\ new[i].end = last.time
          /\ new[i].msg.payload =
                format(k - r, current_skip_, input[r].time, last.time)
          /\ new[i].msg.time = last.time
          /\ new[i].msg.source = last.source
          /\ new[i].msg.logger_name = last.logger_name
          /\ new[i].msg.level = log_level_

C5_SummaryContent == [][C5_Step]_vars

\* a report of three absorbed messages whose last one comes from another
\* logger than the message that ended the run
C5_Witness ==
    /\ Len(last_out) = 2
    /\ summary(last_out[1])
    /\ last_out[1].count >= 3
    /\ last_out[1].msg.logger_name # last_out[2].msg.logger_name

\* C6: both deques have the same length, at most 2 * max_skip_line_, and
\* hold the last min(n, 2 * max_skip_line_) input messages in arrival
\* order, absorbed ones included.
C6_Window ==
    LET n == Len(input)
        size == IF n < 2 * max_skip_line_ THEN n ELSE 2 * max_skip_line_
    IN  /\ Len(recent_msgs_) = Len(recent_msgs_details_)
        /\ Len(recent_msgs_) <= 2 * max_skip_line_
        /\ Len(recent_msgs_) = size
        /\ \A i \in 1..size :
              /\ recent_msgs_details_[i] = input[n - size + i]
              /\ recent_msgs_[i] = input[n - size + i].payload

\* a full window after evictions whose newest entries were absorbed
C6_Witness ==
    /\ Len(input) >= 2 * max_skip_line_ + 2
    /\ Len(recent_msgs_) = 2 * max_skip_line_
    /\ skip_line_count_ >= 2

\* C9: the plain messages the sub sinks received are input messages,
\* unchanged and in arrival order, each at most once and each passed on by
\* the call that processed it; a "Skipped ..." message comes after the
\* plain messages of earlier inputs and before those of later inputs.
C9_Order ==
    /\ \A j \in 1..Len(out) : plain(out[j]) =>
          /\ out[j].step \in 1..Len(input)
          /\ out[j].msg = input[out[j].step]
    /\ \A i, j \in 1..Len(out) : (i < j /\ plain(out[i]) /\ plain(out[j])) =>
          out[i].step < out[j].step
    /\ \A i, j \in 1..Len(out) : (i < j /\ summary(out[i]) /\ plain(out[j])) =>
          out[i].step <= out[j].step
    /\ \A i, j \in 1..Len(out) : (i < j /\ plain(out[i]) /\ summary(out[j])) =>
          out[i].step < out[j].step

C9_Step ==
    LET new == SubSeq(out', Len(out) + 1, Len(out'))
    IN  /\ SubSeq(out', 1, Len(out)) = out
        /\ \A i \in 1..Len(new) : plain(new[i]) =>
              new[i].msg = input'[Len(input')]

C9_ForwardingOrder == []C9_Order /\ [][C9_Step]_vars

\* plain messages before, between and after two "Skipped ..." messages
C9_Witness ==
    /\ Len(summary_out) >= 2
    /\ plain(out[Len(out)])
    /\ Len(plain_out) < Len(input)

(***************************************************************************)
(* Properties of SpecExample.                                              *)
(***************************************************************************)
payloads(s) == [i \in 1..Len(s) |-> s[i].payload]

\* a message as the sub sinks see it, its times left out
without_times(c) ==
    IF summary(c)
    THEN [c.msg EXCEPT !.time = Epoch,
                       !.payload = format(c.count, c.period, Epoch, Epoch)]
    ELSE [c.msg EXCEPT !.time = Epoch]

first_pass == SelectSeq(out, LAMBDA c : c.step <= 3 * ExampleCycles + 1)

second_pass == SelectSeq(out, LAMBDA c : c.step > 3 * ExampleCycles + 1)

\* C2: with max_skip_line 10, after 10 cycles of Hello1, Hello2, Hello3 and
\* Different Hello the sub sinks have received the first 6 messages, one
\* message "Skipped 24 duplicate messages with step 3 ..." and Different
\* Hello; the messages 7..30 were not passed on.
C2_Scenario ==
    (/\ max_skip_line_ = ExampleMaxSkipLine
     /\ payloads(input) = payloads(example_program(ExampleCycles, 1))) =>
        /\ [i \in 1..Len(out) |-> out[i].msg.payload] =
              <<"Hello1", "Hello2", "Hello3", "Hello1", "Hello2", "Hello3",
                "Skipped 24 duplicate messages with step 3 from 7 to 30.",
                "Different Hello">>
        /\ [i \in 1..Len(out) |-> out[i].step] = <<1, 2, 3, 4, 5, 6, 31, 31>>
        /\ [i \in 1..Len(out) |-> out[i].kind] =
              <<"plain", "plain", "plain", "plain", "plain", "plain",
                "summary", "plain">>
        /\ \A i \in 7..30 : ~forwarded(i)

\* the 31 messages of the scenario have been logged
C2_Witness ==
    /\ max_skip_line_ = ExampleMaxSkipLine
    /\ payloads(input) = payloads(example_program(ExampleCycles, 1))
    /\ Len(out) = 8

\* C8: with max_skip_line 10, after the 31 messages of the scenario have
\* been logged twice, the messages passed on during the second 31 are,
\* times aside, those passed on during the first 31: 6 plain messages, a
\* report of 24 with step 3, Different Hello.
C8_RepeatedRuns ==
    (/\ max_skip_line_ = ExampleMaxSkipLine
     /\ payloads(input) = payloads(example_program(ExampleCycles, 2))) =>
        /\ Len(second_pass) = 8
        /\ [i \in 1..Len(second_pass) |-> without_times(second_pass[i])] =
              [i \in 1..Len(first_pass) |-> without_times(first_pass[i])]
        /\ summary(second_pass[7])
        /\ second_pass[7].count = 24
        /\ second_pass[7].period = 3
        /\ second_pass[7].msg.payload =
              "Skipped 24 duplicate messages with step 3 from 38 to 61."

\* the 62 messages have been logged
C8_Witness ==
    /\ max_skip_line_ = ExampleMaxSkipLine
    /\ payloads(input) = payloads(example_program(ExampleCycles, 2))
    /\ Len(second_pass) = 8

(***************************************************************************)
(* Properties of SpecDetect.                                               *)
(***************************************************************************)
\* the newest p texts of w equal the p texts before them
confirms(w, p) ==
    /\ 2 * p <= Len(w)
    /\ \A i \in 0..(p - 1) : w[Len(w) - i] = w[Len(w) - p - i]

confirmed(w, m) == {p \in 1..m : confirms(w, p)}

\* C7: the detector selects the largest p in 1..max_skip_line_ with
\* 2p <= size whose newest p texts equal the p texts before them, and
\* selects none (current_skip_ stays 0) exactly when there is no such p;
\* so it selects 4 when both 2 and 4 confirm.
C7_LongestPeriod ==
    ret = "ok" =>
        LET ps == confirmed(recent_msgs_, max_skip_line_)
        IN  /\ ps = {} <=> current_skip_ = 0
            /\ ps # {} =>
                  /\ current_skip_ \in ps
                  /\ \A p \in ps : p <= current_skip_

\* a window of three different texts on which 2 and 4 both confirm
C7_Witness ==
    /\ ret = "ok"
    /\ confirms(recent_msgs_, 2)
    /\ confirms(recent_msgs_, 4)
    /\ current_skip_ = 4
    /\ recent_msgs_[Len(recent_msgs_)] # recent_msgs_[Len(recent_msgs_) - 1]

(***************************************************************************)
(* Properties of SpecFail.                                                 *)
(***************************************************************************)
\* the calls of the sub sinks made by the last call of sink_it_
last_calls == SelectSeq(calls, LAMBDA c : c.step = Len(input))

\* C10: when a call of the sub sinks throws, for the report or for the
\* arriving message, sink_it_ makes no further call of the sub sinks (no
\* retry, nothing after it) and its caller gets that same exception; a
\* call of sink_it_ in which nothing throws returns normally.
C10_ErrorPropagation ==
    input # <<>> =>
        /\ \A i \in 1..Len(last_calls) : last_calls[i].outcome # "ok" =>
              /\ i = Len(last_calls)
              /\ ret = last_calls[i].outcome
        /\ (\A i \in 1..Len(last_calls) : last_calls[i].outcome = "ok") =>
              ret = "ok"

\* the report threw bad_alloc: the arriving message was not passed on
C10_Witness ==
    /\ Len(last_calls) = 1
    /\ summary(last_calls[1])
    /\ last_calls[1].outcome = "bad_alloc"
    /\ ret = "bad_alloc"

(***************************************************************************)
(* More properties of Spec and SpecDeep.                                   *)
(***************************************************************************)
\* the texts in the deque after the call for input message number d
window_at(d) ==
    LET size == IF d < 2 * max_skip_line_ THEN d ELSE 2 * max_skip_line_
    IN  [i \in 1..size |-> input[d - size + i].payload]

\* while skipping: the number of the message whose call found the period
detected_at == Len(input) - skip_line_count_

\* input message number i is counted by a "Skipped ..." message
reported(i) ==
    \E j \in 1..Len(out) :
        /\ summary(out[j])
        /\ out[j].step - out[j].count <= i
        /\ i < out[j].step

\* C12: a message is absorbed exactly when it arrives while skipping and
\* its text equals the text current_skip_ positions back; a message that
\* arrives while not skipping is passed on by its call, also when that
\* call finds a period, and skip_line_count_ is then still 0; every
\* absorbed message adds one to skip_line_count_.
C12_Step ==
    LET k == Len(input')
        msg == input'[k]
        new == SubSeq(out', Len(out) + 1, Len(out'))
        passed_on == \E i \in 1..Len(new) : plain(new[i]) /\ new[i].msg = msg
        matches == /\ current_skip_ # 0
                   /\ msg.payload = input'[k - current_skip_].payload
    IN  k = Len(input) + 1 =>
          /\ ~passed_on <=> matches
          /\ current_skip_ = 0 => passed_on
          /\ (current_skip_ = 0 /\ current_skip_' # 0) =>
                (passed_on /\ skip_line_count_' = 0)
          /\ matches => skip_line_count_' = skip_line_count_ + 1

C12_ForwardDecision == [][C12_Step]_vars

\* a period of 2 or more has just been found by a call that passed its
\* message on, after an earlier run had absorbed messages
C12_Witness ==
    /\ current_skip_ >= 2
    /\ skip_line_count_ = 0
    /\ forwarded(Len(input))
    /\ Len(summary_out) >= 1

\* C13: between two calls, skip_line_count_ > 0 only while skipping, the
\* period of a run is in 1..max_skip_line_, and skip_start_time_ is set by
\* the call that absorbs the first message of a run, to the time of that
\* message, and kept by the calls that absorb the later ones.
C13_State ==
    /\ skip_line_count_ > 0 => current_skip_ # 0
    /\ current_skip_ # 0 => current_skip_ \in 1..max_skip_line_
    /\ skip_line_count_ > 0 =>
          skip_start_time_ = input[Len(input) - skip_line_count_ + 1].time

C13_Step ==
    /\ (skip_line_count_ = 0 /\ skip_line_count_' > 0) =>
          skip_start_time_' = input'[Len(input')].time
    /\ (skip_line_count_ > 0 /\ skip_line_count_' > 0) =>
          /\ skip_start_time_' = skip_start_time_
          /\ current_skip_' = current_skip_
    /\ skip_line_count_' = 0 \/ skip_line_count_' = skip_line_count_ + 1

C13_SkipState == []C13_State /\ [][C13_Step]_vars

\* the second run of a behaviour has absorbed three messages
C13_Witness ==
    /\ skip_line_count_ >= 3
    /\ Len(summary_out) >= 1
    /\ skip_start_time_ = Len(input) - 2

\* C14 as stated: when a period p is found by the call for message k, the
\* p messages k-p+1..k have all been passed on.
C14_Original ==
    current_skip_ # 0 =>
        \A i \in (detected_at - current_skip_ + 1)..detected_at : forwarded(i)

\* C14 as amended: message k and, for p >= 2, message k-1 have been passed
\* on; each other message of k-p+1..k has been passed on or was absorbed
\* by an earlier run and is counted by its "Skipped ..." message.
C14_SecondCycle ==
    current_skip_ # 0 =>
        /\ forwarded(detected_at)
        /\ current_skip_ >= 2 => forwarded(detected_at - 1)
        /\ \A i \in (detected_at - current_skip_ + 1)..detected_at :
              /\ forwarded(i) \/ reported(i)
              /\ ~(forwarded(i) /\ reported(i))

\* a period was found whose second cycle holds a message absorbed earlier
C14_Witness ==
    /\ current_skip_ # 0
    /\ \E i \in (detected_at - current_skip_ + 1)..detected_at :
          ~forwarded(i) /\ reported(i)

\* C15 as stated: while skipping with period p, no q < p confirms on the
\* window in which p was found.
C15_Original ==
    current_skip_ # 0 =>
        \A q \in 1..(current_skip_ - 1) : ~confirms(window_at(detected_at), q)

\* C15 as amended: while skipping with period p, p confirms on the window
\* in which it was found and no q with p < q <= max_skip_line_ does: p is
\* the longest confirmed period, a shorter one may confirm as well.
C15_LongestPeriodOfRun ==
    current_skip_ # 0 =>
        /\ confirms(window_at(detected_at), current_skip_)
        /\ \A q \in (current_skip_ + 1)..max_skip_line_ :
              ~confirms(window_at(detected_at), q)

\* skipping with a period p on whose window a shorter period confirms too
C15_Witness ==
    /\ current_skip_ # 0
    /\ \E q \in 1..(current_skip_ - 1) : confirms(window_at(detected_at), q)

\* C16: the call for a message that arrives while skipping and differs
\* from the text current_skip_ positions back leaves current_skip_ = 0 and
\* skip_line_count_ = 0, whatever period the window confirms; the call for
\* the message after it finds current_skip_ = 0 and passes its message on.
C16_Step ==
    LET k == Len(input')
        msg == input'[k]
        new == SubSeq(out', Len(out) + 1, Len(out'))
        breaks == /\ current_skip_ # 0
                  /\ msg.payload # input'[k - current_skip_].payload
    IN  k = Len(input) + 1 =>
          /\ breaks => (current_skip_' = 0 /\ skip_line_count_' = 0)
          /\ current_skip_ = 0 =>
                \E i \in 1..Len(new) : plain(new[i]) /\ new[i].msg = msg
          /\ (current_skip_ = 0 /\ confirmed(recent_msgs_, max_skip_line_) # {}) =>
                /\ k >= 2
                /\ forwarded(k - 1)

C16_EndOfRun == [][C16_Step]_vars

\* a run has just ended on a window that confirms a period
C16_Witness ==
    /\ current_skip_ = 0
    /\ skip_line_count_ = 0
    /\ confirmed(recent_msgs_, max_skip_line_) # {}
    /\ Len(last_out) = 2

\* C17: a call that finds current_skip_ = p # 0 has, after lines 83-88, a
\* deque of at least 2p entries, so the entries read at size - p - 1
\* (line 94) and at size - 2 (lines 104 and 124) exist.
C17_Step ==
    current_skip_ # 0 =>
        LET size == Len(recent_msgs_')
        IN  /\ Len(recent_msgs_) >= 2 * current_skip_
            /\ size >= 2 * current_skip_
            /\ size - current_skip_ - 1 \in 0..(size - 1)
            /\ size - 2 \in 0..(size - 1)
            /\ Len(recent_msgs_details_') = size

C17_IndexSafety == [][C17_Step]_vars

\* a message was absorbed by a run with period max_skip_line_ while the
\* deque was full
C17_Witness ==
    /\ current_skip_ = max_skip_line_
    /\ max_skip_line_ >= 2
    /\ skip_line_count_ >= 2
    /\ Len(recent_msgs_) = 2 * max_skip_line_

\* C18: after every call, messages passed on + counts of all "Skipped ..."
\* messages + skip_line_count_ = messages processed; every message not
\* passed on is counted by exactly one "Skipped ..." message or is one of
\* the last skip_line_count_ messages, and no message passed on is counted.
C18_RunningConservation ==
    LET n == Len(input)
        in_progress(i) == i > n - skip_line_count_
        counted(i) ==
            Cardinality({j \in 1..Len(out) :
                /\ summary(out[j])
                /\ out[j].step - out[j].count <= i
                /\ i < out[j].step})
    IN  /\ Len(plain_out) + sum_counts(summary_out) + skip_line_count_ = n
        /\ \A i \in 1..n :
              counted(i) + (IF in_progress(i) THEN 1 ELSE 0) =
                  (IF forwarded(i) THEN 0 ELSE 1)

\* a reported run and a later run with a longer period in progress
C18_Witness ==
    /\ Len(summary_out) >= 1
    /\ skip_line_count_ >= 1
    /\ current_skip_ >= 2

\* C19: the text of every message that was not passed on is the text of an
\* earlier message that was passed on.
C19_NoTextLost ==
    \A i \in 1..Len(input) : ~forwarded(i) =>
        \E j \in 1..(i - 1) :
            forwarded(j) /\ input[j].payload = input[i].payload

\* messages with two different texts have been absorbed
C19_Witness ==
    \E i, j \in 1..Len(input) :
        /\ ~forwarded(i) /\ ~forwarded(j)
        /\ input[i].payload # input[j].payload

(***************************************************************************)
(* Properties of SpecCycle.                                                *)
(***************************************************************************)
\* s, read as a cycle, repeats after q texts
repeats_after(s, q) ==
    \A i \in 1..Len(s) : s[i].payload = s[((i - 1 + q) % Len(s)) + 1].payload

\* the length of the shortest cycle that the producer of s repeats
minimal_cycle(s) ==
    CHOOSE q \in 1..Len(s) :
        /\ repeats_after(s, q)
        /\ \A r \in 1..(q - 1) : ~repeats_after(s, r)

\* skipping with a period that is a multiple of the shortest cycle
settled ==
    /\ current_skip_ # 0
    /\ current_skip_ % minimal_cycle(pending) = 0

\* C20: when the input repeats a cycle of 1..max_skip_line_ texts from its
\* first message on, the sink gets to skip with a period that is a
\* multiple of the shortest cycle, at the latest with message
\* 3 * max_skip_line_ + 1, and from then on keeps that period, absorbs every
\* message and calls the sub sinks no more (no message, no report).
C20_Step ==
    settled =>
        /\ settled'
        /\ current_skip_' = current_skip_
        /\ calls' = calls
        /\ skip_line_count_' = skip_line_count_ + 1

C20_EventualSuppression ==
    /\ <>[]settled
    /\ [][C20_Step]_vars
    /\ [](Len(input) >= 3 * max_skip_line_ + 1 => settled)

\* settled on a cycle of three messages whose first two texts are equal:
\* a run of period 1 was started and ended twice before
C20_Witness ==
    /\ settled
    /\ minimal_cycle(pending) = 3
    /\ skip_line_count_ >= 3
    /\ Len(plain_out) > 2 * minimal_cycle(pending)

(***************************************************************************)
(* The sink after the records of s were processed one after the other by   *)
(* uninterrupted calls of sink_it_ (lines 82-120), calls included.         *)
(***************************************************************************)
constructed ==
    [recent_msgs_ |-> <<>>, recent_msgs_details_ |-> <<>>,
     skip_line_count_ |-> 0, current_skip_ |-> 0,
     skip_start_time_ |-> Epoch, skip_end_time_ |-> Epoch, calls |-> <<>>]

sequential_step(st, msg, step) ==
    LET msgs == push_pop(st.recent_msgs_, msg.payload, max_skip_line_)
        details == push_pop(st.recent_msgs_details_, msg, max_skip_line_)
        skipping == st.current_skip_ # 0
        continues == skipping /\ continue_skipping(msgs, st.current_skip_)
        end_skipping == skipping /\ ~continues
        end_time == details[Len(details) - 1].time
        reports == end_skipping /\ st.skip_line_count_ > 0
        skipped_msg ==
            [msg |-> sink_duplicate_message_(details, st.skip_line_count_,
                        st.current_skip_, st.skip_start_time_, end_time,
                        log_level_),
             kind |-> "summary", step |-> step,
             count |-> st.skip_line_count_, period |-> st.current_skip_,
             start |-> st.skip_start_time_, end |-> end_time,
             outcome |-> "ok"]
        current_msg ==
            [msg |-> msg, kind |-> "plain", step |-> step,
             count |-> 0, period |-> 0, start |-> Epoch, end |-> Epoch,
             outcome |-> "ok"]
    IN  [recent_msgs_ |-> msgs,
         recent_msgs_details_ |-> details,
         skip_line_count_ |->
             IF skipping
             THEN next_skip_line_count(st.skip_line_count_, continues)
             ELSE st.skip_line_count_,
         current_skip_ |->
             next_current_skip(st.current_skip_, continues, msgs,
                               max_skip_line_),
         skip_start_time_ |->
             IF continues /\ st.skip_line_count_ = 0
             THEN msg.time ELSE st.skip_start_time_,
         skip_end_time_ |->
             IF end_skipping THEN end_time ELSE st.skip_end_time_,
         calls |-> st.calls \o
             forward_calls(reports, skipped_msg,
                           print_current_msg(st.current_skip_, continues),
                           current_msg)]

RECURSIVE sequential(_)
sequential(s) ==
    IF s = <<>>
    THEN constructed
    ELSE sequential_step(sequential(SubSeq(s, 1, Len(s) - 1)), s[Len(s)],
                         Len(s))

sink_state ==
    [recent_msgs_ |-> recent_msgs_,
     recent_msgs_details_ |-> recent_msgs_details_,
     skip_line_count_ |-> skip_line_count_, current_skip_ |-> current_skip_,
     skip_start_time_ |-> skip_start_time_, skip_end_time_ |-> skip_end_time_,
     calls |-> calls]

\* the threads that have entered the guarded region of base_sink::log
in_log == {t \in Producers : ~at(t, "idle") /\ ~at(t, "lock")}

\* the threads in the middle of sink_it_
in_sink_it_ == {t \in Producers : at(t, "decide") \/ at(t, "forward")}

(***************************************************************************)
(* C11.  Serialized processing on the lock-protected variant shared by     *)
(* several producers: at most one thread is inside the guarded region, so  *)
(* a record is processed without another record's steps in between;        *)
(* whenever no thread is in the middle of sink_it_ the sink's fields and   *)
(* the forwarded output are those of processing the records one after the  *)
(* other in the order in which they obtained the lock, and in between the  *)
(* output is a prefix of it; a summary is directly followed by the plain   *)
(* record of the same call, or the thread that forwarded it is the one     *)
(* about to forward that record.                                           *)
(***************************************************************************)
C11_Serialized ==
    LET ref == sequential(input)
    IN  /\ Cardinality(in_log) <= 1
        /\ \A t \in in_log : mutex_ = t
        /\ Len(calls) <= Len(ref.calls)
        /\ calls = SubSeq(ref.calls, 1, Len(calls))
        /\ in_sink_it_ = {} => sink_state = ref
        /\ \A j \in 1..Len(calls) :
              summary(calls[j]) =>
                  IF j < Len(calls)
                  THEN /\ plain(calls[j + 1])
                       /\ calls[j + 1].step = calls[j].step
                       /\ calls[j + 1].msg = input[calls[j].step]
                  ELSE \E t \in Producers :
                          /\ at(t, "forward")
                          /\ threads[t].step = calls[j].step
                          /\ threads[t].print_current_msg

\* a record logged before the run began waited for the lock while the
\* other thread's records were absorbed, then ended the run: the summary
\* and that record were forwarded together while the other thread waits
C11_Witness ==
    \E j \in 1..(Len(calls) - 1) :
        /\ summary(calls[j])
        /\ plain(calls[j + 1])
        /\ calls[j + 1].msg.time < calls[j].start
        /\ \E t \in Producers : at(t, "lock")

====
